---------------------------- MODULE Spec2Model ----------------------------
(***************************************************************************)
(* A model of raytracing/figureManager.py: the Figure class (design        *)
(* parameters, scene building, ray classification, display range) and the  *)
(* MplFigure class (label overlap resolution, zoom callback).              *)
(*                                                                         *)
(* Numbers.  Python floats are modelled by integers in a fixed unit that   *)
(* is stated where the quantity is introduced; float('+Inf') is the        *)
(* distinguished integer Inf, larger than every finite value of the model. *)
(* An optional value is a sequence: None is <<>> and a value v is <<v>>.   *)
(***************************************************************************)
EXTENDS Integers, Sequences, FiniteSets, TLC

VARIABLES
    styles,        \* Figure.styles: style name -> dict of design parameters
    designParams,  \* Figure.designParams: a REFERENCE to one dict of styles,
                   \* held as the key of the dict it aliases
    path,          \* Figure.path: the answers of the optical path's queries
                   \* and its objectHeight
    labels,        \* Figure.labels as built by initializeDisplay
    lastCall,      \* history: the last operation, its arguments and outcome
    nCalls         \* history: number of operations performed so far

VARIABLES
    manyRayTraces, \* what path.traceMany(rayGroup) returns: a sequence of ray
                   \* traces, each a sequence of rays [z, y, isBlocked]
    lines,         \* Figure.lines
    rayCall        \* history: the last ray operation, its outcome and result

VARIABLES
    graphics,      \* Figure.graphics
    points,        \* Figure.points
    sceneCall      \* history: the last scene operation and what it returned

VARIABLES
    xlim,          \* MplFigure.axes x-limits <<xMin, xMax>>
    ylim,          \* MplFigure.axes y-limits <<yMin, yMax>>, in twentieths
                   \* of a millimetre
    rangeCall      \* history: the last displayRange computed

designVars == <<styles, designParams, path, labels, lastCall, nCalls>>
rayVars == <<manyRayTraces, lines, rayCall>>
VARIABLES
    stage,         \* MplFigure: "created" (axes exist) or "drawn"
    offsets,       \* the MplLabels' offsets: [graphic |-> one per graphic (0
                   \* for a graphic without label), figure |-> one per label
                   \* of MplFigure.labels]
    transforms,    \* the transform set on each graphic's patches
    labelCall      \* history: the last MplFigure operation and what its
                   \* label resolution did

sceneVars == <<graphics, points, sceneCall>>
axesVars == <<xlim, ylim>>
rangeVars == <<rangeCall>>
figVars == <<stage, offsets, transforms, labelCall>>

\* The variables an operation of one part of the figure leaves alone.
notDesignVars == <<rayVars, sceneVars, axesVars, rangeVars, figVars>>
notRayVars == <<designVars, sceneVars, axesVars, rangeVars, figVars>>
notRangeVars == <<designVars, rayVars, sceneVars, figVars>>

vars == <<designVars, rayVars, sceneVars, axesVars, rangeVars, figVars>>

None == <<>>
Some(v) == <<v>>
ValueOf(o) == o[1]

\* float('+Inf')
Inf == 1000000

-----------------------------------------------------------------------------
(***************************************************************************)
(* Figure.__init__ : the style presets                                     *)
(***************************************************************************)

StyleNames == {"default", "publication", "presentation"}

defaultStyle ==
    [rayColors |-> <<"b", "r", "g">>, onlyAxialRay |-> FALSE,
     imageColor |-> "r", objectColor |-> "b",
     onlyPrincipalAndAxialRays |-> TRUE,
     limitObjectToFieldOfView |-> TRUE,
     removeBlockedRaysCompletely |-> FALSE]

publicationStyle ==
    [defaultStyle EXCEPT !.rayColors = <<"0.4", "0.2", "0.6">>,
                         !.imageColor = "0.3", !.objectColor = "0.1"]

\* The dicts Figure.__init__ builds: 'publication' and 'presentation' are
\* copies of 'default', 'publication' is then updated.
initialStyles ==
    [s \in StyleNames |->
        IF s = "publication" THEN publicationStyle ELSE defaultStyle]

\* self.designParams = self.styles['default'] : no copy, an alias
initialDesignParams == "default"

\* The dict self.designParams refers to.
activeParams == styles[designParams]


-----------------------------------------------------------------------------
(***************************************************************************)
(* Figure.design                                                           *)
(***************************************************************************)

\* newDesignParams.items(): the keys in the order the dict literal lists them
designKeys == <<"rayColors", "onlyAxialRay", "imageColor", "objectColor">>

\* self.designParams[key] = value : a write INTO the dict designParams
\* refers to, which is one of the dicts of self.styles
SetItem(st, ref, key, value) ==
    [st EXCEPT ![ref] = [st[ref] EXCEPT ![key] = value]]

\* The loop of lines 60-65 from key number i on.  The assert on rayColors
\* raises before the write of that key; what earlier keys wrote stays.
RECURSIVE ApplyOverrides(_, _, _, _)
ApplyOverrides(st, ref, new, i) ==
    IF i > Len(designKeys) THEN [styles |-> st, outcome |-> "ok"]
    ELSE LET key == designKeys[i]
             value == new[key]
         IN IF value = None THEN ApplyOverrides(st, ref, new, i + 1)
            ELSE IF key = "rayColors" /\ Len(ValueOf(value)) # 3
                 THEN [styles |-> st, outcome |-> "AssertionError"]
                 ELSE ApplyOverrides(SetItem(st, ref, key, ValueOf(value)),
                                     ref, new, i + 1)

\* Lines 52-56: the style selection rebinds self.designParams to the dict of
\* the style itself (no copy); an unknown style raises ValueError.
SelectStyle(ref, style) ==
    IF style = None THEN [designParams |-> ref, outcome |-> "ok"]
    ELSE IF ValueOf(style) \in StyleNames
         THEN [designParams |-> ValueOf(style), outcome |-> "ok"]
         ELSE [designParams |-> ref, outcome |-> "ValueError"]

\* The whole of Figure.design: the state it leaves and how it ended.
DesignResult(st, ref, style, new) ==
    LET sel == SelectStyle(ref, style)
    IN IF sel.outcome # "ok"
       THEN [styles |-> st, designParams |-> sel.designParams,
             outcome |-> sel.outcome]
       ELSE LET app == ApplyOverrides(st, sel.designParams, new, 1)
            IN [styles |-> app.styles, designParams |-> sel.designParams,
                outcome |-> app.outcome]

\* Arguments the model calls design() with.
StyleArgs == {None, Some("default"), Some("publication"),
              Some("presentation"), Some("fancy")}
RayColorArgs == {None, Some(<<"k", "k", "k">>), Some(<<"k", "k">>)}
OnlyAxialRayArgs == {None, Some(TRUE)}
ImageColorArgs == {None, Some("k")}
ObjectColorArgs == {None, Some("k")}

MaxCalls == 2

noOverrides == [k \in {designKeys[i] : i \in 1..Len(designKeys)} |-> None]

Design(style, rayColors, onlyAxialRay, imageColor, objectColor) ==
    /\ nCalls < MaxCalls
    /\ LET new == [rayColors |-> rayColors, onlyAxialRay |-> onlyAxialRay,
                   imageColor |-> imageColor, objectColor |-> objectColor]
           res == DesignResult(styles, designParams, style, new)
       IN /\ styles' = res.styles
          /\ designParams' = res.designParams
          /\ lastCall' = [op |-> "design", style |-> style, new |-> new,
                          outcome |-> res.outcome,
                          beforeRef |-> designParams,
                          before |-> activeParams,
                          beforeHeight |-> path.objectHeight,
                          warnings |-> {}]
    /\ nCalls' = nCalls + 1
    /\ UNCHANGED <<path, labels>>
    /\ UNCHANGED notDesignVars

DesignCall ==
    \E style \in StyleArgs, rayColors \in RayColorArgs,
       onlyAxialRay \in OnlyAxialRayArgs, imageColor \in ImageColorArgs,
       objectColor \in ObjectColorArgs :
        Design(style, rayColors, onlyAxialRay, imageColor, objectColor)

-----------------------------------------------------------------------------
(***************************************************************************)
(* Figure.initializeDisplay                                                *)
(* path.fieldOfView(), path.imageSize(), path.apertureStop() and           *)
(* path.principalRay() are queries of the optical path: their answers are  *)
(* fields of `path`, fixed when the path is built.                         *)
(***************************************************************************)

\* Lines 72-86: the field-of-view block, entered with the flag on.
\* Gives the object height, the flag, note1 and the warnings after it.
LimitToFieldOfView(p) ==
    LET fovFinite == p.fieldOfView # Inf
        imgFinite == p.imageSize # Inf
        height == IF fovFinite THEN p.fieldOfView ELSE p.objectHeight
        noteA == IF fovFinite THEN <<<<"FOV", height>>>> ELSE <<>>
        noteB == IF imgFinite THEN <<<<"Image size", p.imageSize>>>> ELSE <<>>
    IN [objectHeight |-> height,
        flag |-> fovFinite /\ imgFinite,
        note1 |-> noteA \o noteB,
        warnings |-> (IF fovFinite THEN {} ELSE {"Infinite field of view"})
                     \cup (IF imgFinite THEN {} ELSE {"Infinite image size"})]

\* Lines 91-98
PrincipalAndAxial(p) ==
    IF p.apertureStop = None \/ p.principalRay = None
    THEN [flag |-> FALSE, note2 |-> "", warnings |-> {"No aperture stop"}]
    ELSE [flag |-> TRUE, note2 |-> "Only chief and marginal rays shown",
          warnings |-> {}]

\* Label(text, x, y, fontsize, useDataUnits, alignment).  A label in data
\* units has x in the path's axial unit and y in twentieths of a millimetre;
\* one in axes units has x and y in hundredths of the axes.
Label(text, x, y, fontsize, useDataUnits, alignment) ==
    [text |-> text, x |-> x, y |-> y, fontsize |-> fontsize,
     useDataUnits |-> useDataUnits, alignment |-> alignment]

InitializeDisplay ==
    /\ nCalls < MaxCalls
    /\ LET dp == activeParams
           fov == IF dp.limitObjectToFieldOfView
                  THEN LimitToFieldOfView(path)
                  ELSE [objectHeight |-> path.objectHeight, flag |-> FALSE,
                        note1 |-> <<>>, warnings |-> {}]
           note1 == IF fov.flag THEN fov.note1
                    ELSE <<<<"Object height", fov.objectHeight>>>>
           pa == IF dp.onlyPrincipalAndAxialRays
                 THEN PrincipalAndAxial(path)
                 ELSE [flag |-> FALSE, note2 |-> "", warnings |-> {}]
       IN /\ path' = [path EXCEPT !.objectHeight = fov.objectHeight]
          /\ styles' = [styles EXCEPT ![designParams] =
                           [dp EXCEPT !.limitObjectToFieldOfView = fov.flag,
                                      !.onlyPrincipalAndAxialRays = pa.flag]]
          /\ labels' = Append(labels, Label(<<note1, pa.note2>>, 5, 5, 12,
                                             FALSE, "left"))
          /\ lastCall' = [op |-> "initializeDisplay", style |-> None,
                          new |-> noOverrides, outcome |-> "ok",
                          beforeRef |-> designParams,
                          before |-> dp,
                          beforeHeight |-> path.objectHeight,
                          warnings |-> fov.warnings \cup pa.warnings]
    /\ nCalls' = nCalls + 1
    /\ UNCHANGED designParams
    /\ UNCHANGED notDesignVars

\* The optical paths of the model (heights in millimetres).
NominalObjectHeight == 10
FieldOfViews == {Inf, 4}
ImageSizes == {Inf, 8}
\* An imaging path with no element, an aperture stop and a principal ray.
basePath ==
    [kind |-> "imaging", objectHeight |-> NominalObjectHeight,
     objectPosition |-> 0,
     fieldOfView |-> Inf, imageSize |-> Inf,
     apertureStop |-> Some(3), fieldStop |-> None,
     principalRay |-> Some("ray"), entrancePupil |-> None,
     elements |-> <<>>, conjugates |-> <<>>, inputBeam |-> None,
     largestDiameter |-> 4, pointsOfInterest |-> <<>>,
     showObject |-> TRUE, showImages |-> TRUE, showEntrancePupil |-> FALSE,
     showPointsOfInterest |-> TRUE]

Paths ==
    {[basePath EXCEPT !.fieldOfView = fov, !.imageSize = size,
                      !.apertureStop = stop, !.principalRay = ray] :
        fov \in FieldOfViews, size \in ImageSizes,
        stop \in {None, Some(3)}, ray \in {None, Some("ray")}}

\* The figure before any ray is traced.
noRayCall == [op |-> "none", outcome |-> "ok", trace |-> <<>>,
              x |-> <<>>, y |-> <<>>, lines |-> <<>>]
RaysIdle ==
    /\ manyRayTraces = <<>>
    /\ lines = <<>>
    /\ rayCall = noRayCall

\* The figure before any scene is built.
noSceneCall == [op |-> "none", outcome |-> "ok", pointsOfInterest |-> <<>>]
SceneIdle ==
    /\ graphics = <<>>
    /\ points = <<>>
    /\ sceneCall = noSceneCall

\* The axes before any figure is drawn (matplotlib's default limits).
noLabelCall == [op |-> "none", passes |-> 0, translated |-> {},
                rendered |-> <<>>, displaced |-> FALSE]
AxesIdle ==
    /\ xlim = <<0, 1>>
    /\ ylim = <<0, 20>>
    /\ rangeCall = [op |-> "none", displayRange |-> 0]
    /\ stage = "created"
    /\ offsets = [graphic |-> <<>>, figure |-> <<>>]
    /\ transforms = <<>>
    /\ labelCall = noLabelCall

DesignInit ==
    /\ RaysIdle
    /\ SceneIdle
    /\ AxesIdle
    /\ styles = initialStyles
    /\ designParams = initialDesignParams
    /\ path \in Paths
    /\ labels = <<>>
    /\ lastCall = [op |-> "init", style |-> None, new |-> noOverrides,
                   outcome |-> "ok", beforeRef |-> initialDesignParams,
                   before |-> defaultStyle,
                   beforeHeight |-> NominalObjectHeight, warnings |-> {}]
    /\ nCalls = 0

DesignNext == DesignCall \/ InitializeDisplay

SpecDesign == DesignInit /\ [][DesignNext]_vars

\* Only design() calls on one Figure.
SpecStyles == DesignInit /\ [][DesignCall]_vars

-----------------------------------------------------------------------------
(***************************************************************************)
(* Properties of design and initializeDisplay                              *)
(***************************************************************************)

\* A baseline with exactly the supplied override fields replaced.
Overridden(base, new) ==
    [k \in DOMAIN base |->
        IF k \in DOMAIN new /\ new[k] # None THEN ValueOf(new[k]) ELSE base[k]]

\* C1: style presets are immutable baselines.  After any sequence of earlier
\* successful design calls, a successful design(style=S, overrides) leaves
\* the active design parameters equal to the ORIGINAL preset S with exactly
\* the supplied overrides replaced (so design(style=S) alone selects the
\* original preset again).
C1_PresetsAreImmutableBaselines ==
    (/\ lastCall.op = "design"
     /\ lastCall.outcome = "ok"
     /\ lastCall.style # None)
    => activeParams = Overridden(initialStyles[ValueOf(lastCall.style)],
                                 lastCall.new)

\* C7: in initializeDisplay the object height is overwritten by the field of
\* view only when limitObjectToFieldOfView stays enabled; whenever the flag
\* is forced off during the call a warning is issued and the object height
\* after the call is the nominal one it had before the call.
C7_ForcedOffKeepsNominalObjectHeight ==
    lastCall.op = "initializeDisplay" =>
        LET staysOn == activeParams.limitObjectToFieldOfView
            forcedOff == lastCall.before.limitObjectToFieldOfView /\ ~staysOn
        IN /\ (path.objectHeight # lastCall.beforeHeight => staysOn)
           /\ (forcedOff =>
                 /\ lastCall.warnings \cap {"Infinite field of view",
                                            "Infinite image size"} # {}
                 /\ path.objectHeight = lastCall.beforeHeight)

\* C8: a design call with an unknown style or a rayColors list whose length
\* is not 3 is reported as an error and aborted as a whole: the active design
\* parameters (selected style and every field) are what they were before.
C8_FailedDesignCallChangesNothing ==
    lastCall.op = "design" =>
        LET badStyle == lastCall.style # None
                        /\ ValueOf(lastCall.style) \notin StyleNames
            badColors == lastCall.new.rayColors # None
                         /\ Len(ValueOf(lastCall.new.rayColors)) # 3
        IN /\ (badStyle \/ badColors) => lastCall.outcome # "ok"
           /\ lastCall.outcome # "ok" =>
                 /\ designParams = lastCall.beforeRef
                 /\ activeParams = lastCall.before

-----------------------------------------------------------------------------
(***************************************************************************)
(* Figure.rearrangeRayTraceForPlotting and Figure.rayTraceLines            *)
(* Heights (ray.y, path.objectHeight) are integers, in millimetres.        *)
(***************************************************************************)

\* The loop of lines 333-339 from ray number i on, with the x and y lists
\* built so far: an unblocked ray is appended; a blocked one returns [], []
\* when removeBlockedRaysCompletely is set and is otherwise passed over, the
\* loop going on with the next ray.
RECURSIVE RearrangeFrom(_, _, _, _, _)
RearrangeFrom(rayList, removeCompletely, i, x, y) ==
    IF i > Len(rayList) THEN [x |-> x, y |-> y]
    ELSE LET ray == rayList[i]
         IN IF ~ray.isBlocked
            THEN RearrangeFrom(rayList, removeCompletely, i + 1,
                               Append(x, ray.z), Append(y, ray.y))
            ELSE IF removeCompletely
                 THEN [x |-> <<>>, y |-> <<>>]
                 ELSE RearrangeFrom(rayList, removeCompletely, i + 1, x, y)

rearrangeRayTraceForPlotting(rayList, dp) ==
    RearrangeFrom(rayList, dp.removeBlockedRaysCompletely, 1, <<>>, <<>>)

\* Python's int() of the float quotient a / b: truncation towards zero
\* (b # 0).
TruncDiv(a, b) ==
    LET absA == IF a < 0 THEN -a ELSE a
        absB == IF b < 0 THEN -b ELSE b
    IN IF (a < 0) = (b < 0) THEN absA \div absB ELSE -(absA \div absB)

\* Lines 309-316.  With halfHeight = objectHeight / 2 and
\* binSize = 2 * halfHeight / (n - 1), the quotient
\*   (rayInitialHeight + halfHeight + binSize / 2) / binSize
\* is (2 (n-1) rayInitialHeight + n objectHeight) / (2 objectHeight).
\* The float division raises ZeroDivisionError when binSize is 0.
colorIndexOf(rayInitialHeight, objectHeight, n) ==
    IF objectHeight = 0 THEN [outcome |-> "ZeroDivisionError", index |-> None]
    ELSE LET raw == TruncDiv(2 * (n - 1) * rayInitialHeight + n * objectHeight,
                             2 * objectHeight)
             clamped == IF raw < 0 THEN 0
                        ELSE IF raw >= n THEN n - 1 ELSE raw
         IN [outcome |-> "ok", index |-> Some(clamped)]

\* linewidth, in tenths
lineWidthOf(dp) == IF dp.onlyPrincipalAndAxialRays THEN 15 ELSE 5

\* The loop of lines 301-319 from ray trace number i on.
RECURSIVE LinesFrom(_, _, _, _, _)
LinesFrom(traces, objectHeight, dp, i, acc) ==
    IF i > Len(traces) THEN [outcome |-> "ok", lines |-> acc]
    ELSE LET xy == rearrangeRayTraceForPlotting(traces[i], dp)
         IN IF Len(xy.y) = 0
            THEN LinesFrom(traces, objectHeight, dp, i + 1, acc)
            ELSE LET color == dp.rayColors
                     ci == colorIndexOf(xy.y[1], objectHeight, Len(color))
                 IN IF ci.outcome # "ok"
                    THEN [outcome |-> ci.outcome, lines |-> acc]
                    ELSE LinesFrom(traces, objectHeight, dp, i + 1,
                            Append(acc,
                               [x |-> xy.x, y |-> xy.y,
                                colorIndex |-> ValueOf(ci.index),
                                color |-> color[ValueOf(ci.index) + 1],
                                lineWidth |-> lineWidthOf(dp),
                                label |-> "ray",
                                trace |-> i]))

rayTraceLines(traces, p, dp) == LinesFrom(traces, p.objectHeight, dp, 1, <<>>)

\* A call of rearrangeRayTraceForPlotting on one of the ray traces.
Rearrange(i) ==
    /\ i \in 1..Len(manyRayTraces)
    /\ LET xy == rearrangeRayTraceForPlotting(manyRayTraces[i], activeParams)
       IN rayCall' = [op |-> "rearrangeRayTraceForPlotting", outcome |-> "ok",
                      trace |-> manyRayTraces[i], x |-> xy.x, y |-> xy.y,
                      lines |-> <<>>]
    /\ UNCHANGED <<manyRayTraces, lines>>
    /\ UNCHANGED notRayVars

RearrangeCall == \E i \in 1..Len(manyRayTraces) : Rearrange(i)

\* A call of rayTraceLines: it returns the lines and changes no field.
RayTraceLines ==
    /\ LET res == rayTraceLines(manyRayTraces, path, activeParams)
       IN rayCall' = [op |-> "rayTraceLines", outcome |-> res.outcome,
                      trace |-> <<>>, x |-> <<>>, y |-> <<>>,
                      lines |-> res.lines]
    /\ UNCHANGED <<manyRayTraces, lines>>
    /\ UNCHANGED notRayVars

\* The ray traces of the model: a ray starts at height y0 and climbs by one
\* millimetre per sample; each sample carries its own blocked flag.
MaxSamples == 3
MaxRays == 2
MaxStartHeight == 2
StartHeights == (-MaxStartHeight)..MaxStartHeight
RayObjectHeights == {0, 2, 3}

TraceOf(y0, flags) ==
    [i \in 1..Len(flags) |->
        [z |-> i - 1, y |-> y0 + (i - 1), isBlocked |-> flags[i]]]

BlockedFlags == UNION {[1..n -> BOOLEAN] : n \in 1..MaxSamples}

RayTraces ==
    {TraceOf(y0, flags) : y0 \in StartHeights, flags \in BlockedFlags}

RaysInit ==
    /\ \E removeCompletely \in BOOLEAN :
          styles = [initialStyles EXCEPT !["default"] =
                       [@ EXCEPT !.removeBlockedRaysCompletely = removeCompletely]]
    /\ designParams = initialDesignParams
    /\ \E h \in RayObjectHeights : path = [basePath EXCEPT !.objectHeight = h]
    /\ SceneIdle
    /\ AxesIdle
    /\ labels = <<>>
    /\ lastCall = [op |-> "init", style |-> None, new |-> noOverrides,
                   outcome |-> "ok", beforeRef |-> initialDesignParams,
                   before |-> defaultStyle,
                   beforeHeight |-> NominalObjectHeight, warnings |-> {}]
    /\ nCalls = 0
    /\ \E n \in 1..MaxRays : manyRayTraces \in [1..n -> RayTraces]
    /\ lines = <<>>
    /\ rayCall = noRayCall

RaysNext == RearrangeCall \/ RayTraceLines

SpecRays == RaysInit /\ [][RaysNext]_vars

-----------------------------------------------------------------------------
(***************************************************************************)
(* Properties of the ray classifier                                        *)
(***************************************************************************)

\* The index of the first blocked sample of a trace (Len + 1 when none is).
FirstBlocked(trace) ==
    IF \E i \in 1..Len(trace) : trace[i].isBlocked
    THEN CHOOSE i \in 1..Len(trace) :
            /\ trace[i].isBlocked
            /\ \A j \in 1..(i - 1) : ~trace[j].isBlocked
    ELSE Len(trace) + 1

\* C2: with removeBlockedRaysCompletely disabled, rearrangeRayTraceForPlotting
\* returns exactly the samples that precede the first blocked sample, in
\* order; a ray whose first sample is blocked yields an empty line and so no
\* Line in rayTraceLines.
C2_LineStopsAtFirstBlockedSample ==
    ~activeParams.removeBlockedRaysCompletely =>
        /\ rayCall.op = "rearrangeRayTraceForPlotting" =>
              LET k == FirstBlocked(rayCall.trace) - 1
              IN /\ rayCall.x = [i \in 1..k |-> rayCall.trace[i].z]
                 /\ rayCall.y = [i \in 1..k |-> rayCall.trace[i].y]
        /\ (rayCall.op = "rayTraceLines" /\ rayCall.outcome = "ok") =>
              \A k \in 1..Len(rayCall.lines) :
                  ~manyRayTraces[rayCall.lines[k].trace][1].isBlocked

\* floor((startY + halfHeight + binWidth/2) / binWidth) clamped into
\* [0, n - 1], for objectHeight > 0
ClampedFloorIndex(startY, objectHeight, n) ==
    LET raw == (2 * (n - 1) * startY + n * objectHeight) \div (2 * objectHeight)
    IN IF raw < 0 THEN 0 ELSE IF raw > n - 1 THEN n - 1 ELSE raw

\* C3: in rayTraceLines, for every ray bundle, object height and starting
\* height, the color index of every ray that yields a line is a well-defined
\* integer in [0, len(colors) - 1], equal to the clamped floor of
\* (startY - (-halfHeight - binWidth/2)) / binWidth.
C3_ColorIndexIsDefinedAndClamped ==
    rayCall.op = "rayTraceLines" =>
        /\ rayCall.outcome = "ok"
        /\ \A k \in 1..Len(rayCall.lines) :
              LET n == Len(activeParams.rayColors)
                  line == rayCall.lines[k]
              IN /\ line.colorIndex \in 0..(n - 1)
                 /\ path.objectHeight > 0 =>
                       line.colorIndex =
                          ClampedFloorIndex(line.y[1], path.objectHeight, n)

-----------------------------------------------------------------------------
(***************************************************************************)
(* Figure.displayRange and MplFigure.updateDisplayRange                    *)
(* path.elements is the sequence of the elements' graphics as GraphicOf    *)
(* gives them: [L, halfHeight], halfHeight being None for an element with  *)
(* no graphic, and 0, a finite height or Inf otherwise.  A conjugate is    *)
(* [position, magnification].  Heights are in millimetres.                 *)
(***************************************************************************)

\* max(line.yData)
RECURSIVE MaxOf(_)
MaxOf(ys) ==
    IF Len(ys) = 1 THEN ys[1]
    ELSE LET m == MaxOf(Tail(ys)) IN IF ys[1] > m THEN ys[1] ELSE m

\* Lines 124-128 from line number i on.
RECURSIVE MaxRayHeightFrom(_, _, _)
MaxRayHeightFrom(lns, i, maxRayHeight) ==
    IF i > Len(lns) THEN maxRayHeight
    ELSE MaxRayHeightFrom(lns, i + 1,
            IF lns[i].label = "ray" /\ MaxOf(lns[i].y) > maxRayHeight
            THEN MaxOf(lns[i].y) ELSE maxRayHeight)

\* Lines 130-137 from element number i on, z being the position reached.
\* GraphicOf gives no graphic for an element whose halfHeight is None.
RECURSIVE ElementGraphicsFrom(_, _, _, _)
ElementGraphicsFrom(elements, i, z, minSize) ==
    IF i > Len(elements) THEN <<>>
    ELSE LET rest == ElementGraphicsFrom(elements, i + 1,
                                         z + elements[i].L, minSize)
         IN IF elements[i].halfHeight = None THEN rest
            ELSE <<[kind |-> "element", x |-> z,
                    halfHeight |-> ValueOf(elements[i].halfHeight),
                    minSize |-> minSize]>> \o rest

graphicsOfElements(p, lns) ==
    ElementGraphicsFrom(p.elements, 1, 0, MaxRayHeightFrom(lns, 1, 0))

\* graphic.halfHeight * 2 in float arithmetic
Twice(h) == IF h = Inf THEN Inf ELSE 2 * h

\* The loop of lines 239-241 (and 260-262) from graphic number i on.
RECURSIVE LargestExtent(_, _, _)
LargestExtent(gs, i, displayRange) ==
    IF i > Len(gs) THEN displayRange
    ELSE LargestExtent(gs, i + 1,
            IF Twice(gs[i].halfHeight) > displayRange
            THEN Twice(gs[i].halfHeight) ELSE displayRange)

\* path.L : the sum of the elements' lengths
RECURSIVE LengthOf(_)
LengthOf(elements) ==
    IF elements = <<>> THEN 0 ELSE Head(elements).L + LengthOf(Tail(elements))

Abs(n) == IF n < 0 THEN -n ELSE n

\* The loop of lines 248-253 from conjugate number i on.
RECURSIVE OverConjugates(_, _, _)
OverConjugates(p, i, displayRange) ==
    IF i > Len(p.conjugates) THEN displayRange
    ELSE LET c == p.conjugates[i]
             height == p.objectHeight * Abs(c.magnification)
         IN IF ~(0 <= c.position /\ c.position <= LengthOf(p.elements))
            THEN OverConjugates(p, i + 1, displayRange)
            ELSE OverConjugates(p, i + 1,
                    IF displayRange < height THEN height ELSE displayRange)

imagingDisplayRange(p, lns) ==
    LET largest == LargestExtent(graphicsOfElements(p, lns), 1, 0)
        floored == IF largest = Inf \/ largest <= p.objectHeight
                   THEN p.objectHeight ELSE largest
    IN OverConjugates(p, 1, floored)

\* line 268
LaserFallbackRange == 100

laserDisplayRange(p, lns) ==
    LET largest == LargestExtent(graphicsOfElements(p, lns), 1, 0)
    IN IF largest = Inf \/ largest = 0
       THEN IF p.inputBeam # None THEN ValueOf(p.inputBeam).w * 3
            ELSE LaserFallbackRange
       ELSE largest

\* isinstance(self.path, LaserPath)
displayRange(p, lns) ==
    IF p.kind = "laser" THEN laserDisplayRange(p, lns)
    ELSE imagingDisplayRange(p, lns)

\* What self.axes.autoscale() may set the x-limits to (matplotlib's choice
\* from the artists drawn).
AutoscaleXLims == {<<0, 512>>, <<0, 1024>>}

\* halfDisplayHeight = displayRange/2 * 1.5, in twentieths of a millimetre
UpdateDisplayRange ==
    /\ LET range == displayRange(path, lines)
       IN /\ ylim' = <<-(15 * range), 15 * range>>
          /\ rangeCall' = [op |-> "updateDisplayRange", displayRange |-> range]
    /\ xlim' \in AutoscaleXLims
    /\ UNCHANGED notRangeVars

\* The optical paths of the model.
MaxElements == 3
MaxHalfHeight == 2
ElementLength == 5
HalfHeights == {None, Some(0), Some(MaxHalfHeight), Some(Inf)}
Elements ==
    [L : {ElementLength}, halfHeight : HalfHeights, pointsOfInterest : {<<>>}]
Conjugates == [position : {-1, ElementLength}, magnification : {-2, 1}]
RangeObjectHeights == {0, 3, NominalObjectHeight}
InputBeams == {None, Some([w |-> 1]), Some([w |-> 2])}

RangePaths ==
    {[basePath EXCEPT !.kind = kind, !.objectHeight = h, !.elements = els,
                      !.conjugates = cj, !.inputBeam = beam] :
        kind \in {"imaging", "laser"}, h \in RangeObjectHeights,
        els \in UNION {[1..n -> Elements] : n \in 0..MaxElements},
        cj \in {<<>>} \cup {<<c>> : c \in Conjugates},
        beam \in InputBeams}

RangeInit ==
    /\ RaysIdle
    /\ SceneIdle
    /\ AxesIdle
    /\ styles = initialStyles
    /\ designParams = initialDesignParams
    /\ path \in {p \in RangePaths : p.kind = "laser" \/ p.inputBeam = None}
    /\ labels = <<>>
    /\ lastCall = [op |-> "init", style |-> None, new |-> noOverrides,
                   outcome |-> "ok", beforeRef |-> initialDesignParams,
                   before |-> defaultStyle,
                   beforeHeight |-> NominalObjectHeight, warnings |-> {}]
    /\ nCalls = 0

RangeNext == UpdateDisplayRange

SpecRange == RangeInit /\ [][RangeNext]_vars

\* An element graphic of finite, non-zero extent.
HasFiniteExtent(p) ==
    \E i \in 1..Len(p.elements) :
        /\ p.elements[i].halfHeight # None
        /\ ValueOf(p.elements[i].halfHeight) > 0
        /\ ValueOf(p.elements[i].halfHeight) < Inf

\* C4: displayRange (imaging and laser mode alike) is finite and > 0 for
\* every path with at least one element graphic of finite extent, or an
\* object height set (imaging), or an input beam (laser), whatever the mix of
\* finite-extent, zero-extent and infinite-extent elements.
C4_DisplayRangeIsFiniteAndPositive ==
    (/\ rangeCall.op = "updateDisplayRange"
     /\ \/ HasFiniteExtent(path)
        \/ path.kind = "imaging" /\ path.objectHeight > 0
        \/ path.kind = "laser" /\ path.inputBeam # None)
    => (0 < rangeCall.displayRange /\ rangeCall.displayRange < Inf)

-----------------------------------------------------------------------------
(***************************************************************************)
(* Figure.setGraphicsFromPath and the properties it reads                  *)
(* Axial positions (z, x, L) are integers, in units of 0.0001.  A point of *)
(* interest is [z, label].                                                 *)
(***************************************************************************)

\* line 141-142: Arrow(dy=objectHeight, y=-objectHeight/2) at objectPosition
graphicOfObject(p) ==
    [kind |-> "object", x |-> p.objectPosition, dy |-> p.objectHeight,
     color |-> "b"]

\* lines 151-157: one arrow per conjugate, of height magnification * objectHeight
graphicsOfImages(p) ==
    [i \in 1..Len(p.conjugates) |->
        [kind |-> "image", x |-> p.conjugates[i].position,
         dy |-> p.conjugates[i].magnification * p.objectHeight,
         color |-> "r"]]

\* lines 163-171: two apertures at +/- pupilDiameter / 2
graphicOfEntrancePupil(p) ==
    [kind |-> "pupil", x |-> ValueOf(p.entrancePupil).position,
     diameter |-> ValueOf(p.entrancePupil).diameter]

\* A format that cuts the position after 3 decimals instead of rounding it.
FormatZTruncating(z) == z \div 10

\* "{0:3.3f}".format(z): z rounded to 3 decimals.  The string is held as the
\* number of thousandths it reads (z >= 0, and no z lies half way between two
\* thousandths).
FormatZ(z) == (z + 5) \div 10

\* float(zStr), in units of 0.0001
FloatOf(zStr) == 10 * zStr

\* Lines 183-188 (and 196-201): file one point of interest in the dict
\* `labels`, held as the sequence of its items [zStr, label] in insertion
\* order.
FilePointOfInterest(dict, pointOfInterest) ==
    LET zStr == FormatZ(pointOfInterest.z)
        label == pointOfInterest.label
    IN IF \E k \in 1..Len(dict) : dict[k].zStr = zStr
       THEN [k \in 1..Len(dict) |->
                IF dict[k].zStr = zStr
                THEN [dict[k] EXCEPT !.label = @ \o ", " \o label]
                ELSE dict[k]]
       ELSE Append(dict, [zStr |-> zStr, label |-> label])

RECURSIVE FileAll(_, _)
FileAll(dict, pois) ==
    IF pois = <<>> THEN dict
    ELSE FileAll(FilePointOfInterest(dict, Head(pois)), Tail(pois))

\* element.pointsOfInterest(zElement): the element's points of interest,
\* given relative to its own start, at their positions in the path.
elementPointsOfInterest(element, zElement) ==
    [i \in 1..Len(element.pointsOfInterest) |->
        [z |-> zElement + element.pointsOfInterest[i].z,
         label |-> element.pointsOfInterest[i].label]]

\* Lines 191-202 from element number i on.
RECURSIVE FileElementsFrom(_, _, _, _)
FileElementsFrom(dict, elements, i, zElement) ==
    IF i > Len(elements) THEN dict
    ELSE FileElementsFrom(
            FileAll(dict, elementPointsOfInterest(elements[i], zElement)),
            elements, i + 1, zElement + elements[i].L)

\* Point(text, x, y): y = -halfHeight * 0.5 with halfHeight =
\* largestDiameter / 2, in twentieths of a millimetre.
pointsOfInterest(p) ==
    LET dict == FileElementsFrom(FileAll(<<>>, p.pointsOfInterest),
                                 p.elements, 1, 0)
    IN [k \in 1..Len(dict) |->
           [text |-> dict[k].label, x |-> FloatOf(dict[k].zStr),
            y |-> -(5 * p.largestDiameter)]]

\* Lines 213-224: AS and FS at 110% of largestDiameter / 2, fontsize 18.
stopsLabels(p) ==
    (IF p.apertureStop # None
     THEN <<Label("AS", ValueOf(p.apertureStop), 11 * p.largestDiameter, 18,
                  TRUE, "center")>>
     ELSE <<>>)
    \o (IF p.fieldStop # None
        THEN <<Label("FS", ValueOf(p.fieldStop), 11 * p.largestDiameter, 18,
                     TRUE, "center")>>
        ELSE <<>>)

\* Lines 103-120.  rayTraceLines may raise, and then nothing is assigned.
SetGraphicsFromPath ==
    /\ nCalls < MaxCalls
    /\ nCalls' = nCalls + 1
    /\ LET res == rayTraceLines(manyRayTraces, path, activeParams)
           newLines == res.lines
           pois == pointsOfInterest(path)
       IN IF res.outcome # "ok"
          THEN /\ sceneCall' = [op |-> "setGraphicsFromPath",
                                outcome |-> res.outcome,
                                pointsOfInterest |-> <<>>]
               /\ UNCHANGED <<lines, graphics, points, labels>>
          ELSE /\ lines' = newLines
               /\ graphics' =
                     graphicsOfElements(path, newLines)
                     \o (IF path.showObject THEN <<graphicOfObject(path)>>
                         ELSE <<>>)
                     \o (IF path.showImages THEN graphicsOfImages(path)
                         ELSE <<>>)
                     \o (IF path.showEntrancePupil /\ path.entrancePupil # None
                         THEN <<graphicOfEntrancePupil(path)>> ELSE <<>>)
               /\ points' = IF path.showPointsOfInterest
                            THEN points \o pois ELSE points
               /\ labels' = IF path.showPointsOfInterest
                            THEN labels \o stopsLabels(path) ELSE labels
               /\ sceneCall' = [op |-> "setGraphicsFromPath", outcome |-> "ok",
                                pointsOfInterest |->
                                    IF path.showPointsOfInterest THEN pois
                                    ELSE <<>>]
    /\ UNCHANGED <<styles, designParams, path, lastCall>>
    /\ UNCHANGED <<manyRayTraces, rayCall>>
    /\ UNCHANGED <<axesVars, rangeVars, figVars>>

\* The paths of the model: up to MaxPathPoints points of interest of the
\* path itself and up to MaxPoiElements elements with at most one each.
MaxPathPoints == 2
MaxPoiElements == 2
PathPoiZ == {0, 4, 6, 14}
ElementPoiZ == {1, 9}

\* No position half way between two thousandths.
NoTie(z) == z % 10 # 5

PathPois ==
    UNION {{[i \in 1..n |-> [z |-> zs[i], label |-> <<"P1", "P2", "P3">>[i]]] :
              zs \in [1..n -> PathPoiZ]} : n \in 0..MaxPathPoints}

PoiElements ==
    {[L |-> ElementLength, halfHeight |-> Some(MaxHalfHeight),
      pointsOfInterest |-> <<>>]}
    \cup {[L |-> ElementLength, halfHeight |-> Some(MaxHalfHeight),
           pointsOfInterest |-> <<[z |-> z, label |-> "E"]>>] :
             z \in ElementPoiZ}

AllPointsOfInterestFrom(p) ==
    LET zElement(i) == LengthOf(SubSeq(p.elements, 1, i - 1))
        RECURSIVE OfElements(_)
        OfElements(i) ==
            IF i > Len(p.elements) THEN <<>>
            ELSE elementPointsOfInterest(p.elements[i], zElement(i))
                 \o OfElements(i + 1)
    IN p.pointsOfInterest \o OfElements(1)

PoiPaths ==
    {q \in {[basePath EXCEPT !.pointsOfInterest = pp, !.elements = els,
                             !.showPointsOfInterest = show] :
               pp \in PathPois,
               els \in UNION {[1..n -> PoiElements] : n \in 0..MaxPoiElements},
               show \in BOOLEAN} :
        \A a \in 1..Len(AllPointsOfInterestFrom(q)) :
            NoTie(AllPointsOfInterestFrom(q)[a].z)}

PointsInit ==
    /\ manyRayTraces = <<TraceOf(1, <<FALSE, FALSE>>)>>
    /\ lines = <<>>
    /\ rayCall = noRayCall
    /\ SceneIdle
    /\ AxesIdle
    /\ styles = initialStyles
    /\ designParams = initialDesignParams
    /\ path \in PoiPaths
    /\ labels = <<>>
    /\ lastCall = [op |-> "init", style |-> None, new |-> noOverrides,
                   outcome |-> "ok", beforeRef |-> initialDesignParams,
                   before |-> defaultStyle,
                   beforeHeight |-> NominalObjectHeight, warnings |-> {}]
    /\ nCalls = 0

PointsNext == SetGraphicsFromPath

SpecPoints == PointsInit /\ [][PointsNext]_vars

-----------------------------------------------------------------------------
(***************************************************************************)
(* Properties of the points of interest                                    *)
(***************************************************************************)

\* The points of interest handed to the figure, in the order it reads them.
allPois == AllPointsOfInterestFrom(path)

\* z to 3 decimals, in units of 0.0001 (half way cases do not occur).
RoundedZ(z) == CHOOSE x \in {10 * t : t \in 0..((z \div 10) + 1)} :
                   x - 5 < z /\ z < x + 5

\* The labels of a sequence of points of interest joined by ", ".
RECURSIVE JoinLabels(_)
JoinLabels(pois) ==
    IF Len(pois) = 1 THEN pois[1].label
    ELSE pois[1].label \o ", " \o JoinLabels(Tail(pois))

\* Point k is the Point that point of interest a was filed under.
EndsUpIn(a, k) ==
    sceneCall.pointsOfInterest[k].x = FloatOf(FormatZ(allPois[a].z))

BuiltPoints ==
    /\ sceneCall.op = "setGraphicsFromPath"
    /\ sceneCall.outcome = "ok"
    /\ path.showPointsOfInterest

\* C6 (as claimed): any two points of interest whose axial positions differ
\* by less than 0.0005 end up in one Point; they never produce two separate
\* Points.
C6_ClosePointsShareOnePoint ==
    BuiltPoints =>
        \A a, b \in 1..Len(allPois) :
            Abs(allPois[a].z - allPois[b].z) < 5 =>
                \E k \in 1..Len(sceneCall.pointsOfInterest) :
                    EndsUpIn(a, k) /\ EndsUpIn(b, k)

\* C6 (amended): points of interest are merged by their axial position
\* rounded to 3 decimals.  There is exactly one Point per rounded position, at
\* that position, and its text lists the labels of all points of interest
\* with that rounded position, in the order read, joined by ", "; points of
\* interest that round differently are in different Points.
C6_PointsMergedByRoundedPosition ==
    BuiltPoints =>
        LET pts == sceneCall.pointsOfInterest
        IN /\ \A a \in 1..Len(allPois) :
                 \E k \in 1..Len(pts) : pts[k].x = RoundedZ(allPois[a].z)
           /\ \A k1, k2 \in 1..Len(pts) : pts[k1].x = pts[k2].x => k1 = k2
           /\ \A k \in 1..Len(pts) :
                 LET SameZ(poi) == RoundedZ(poi.z) = pts[k].x
                 IN /\ \E a \in 1..Len(allPois) : SameZ(allPois[a])
                    /\ pts[k].text = JoinLabels(SelectSeq(allPois, SameZ))

\* Two points of interest closer than 0.0005 were read, merged or not.
C6_Witness ==
    /\ BuiltPoints
    /\ \E a, b \in 1..Len(allPois) :
          /\ a # b
          /\ Abs(allPois[a].z - allPois[b].z) < 5
          /\ RoundedZ(allPois[a].z) = RoundedZ(allPois[b].z)
    /\ \E k \in 1..Len(sceneCall.pointsOfInterest) :
          sceneCall.pointsOfInterest[k].text = "P1, P2, E"

-----------------------------------------------------------------------------
(***************************************************************************)
(* MplFigure: draw, updateGraphics, updateLabels, onZoomCallback           *)
(*                                                                         *)
(* A figure is the record fig = [graphics, labels, xlim, ylim].  A label   *)
(* is named by its owner and index: [owner |-> "graphic", index |-> i] is  *)
(* graphics[i].label and [owner |-> "figure", index |-> j] is labels[j].   *)
(* In this part x positions are in units of 1/32 and anchors, widths and   *)
(* x-limits are multiples of 32, so that each of the at most maxIteration  *)
(* halvings of a spacing is exact.                                         *)
(***************************************************************************)

\* fixLabelOverlaps(self, maxIteration: int = 5)
maxIteration == 5

LabelIdOf(owner, index) == [owner |-> owner, index |-> index]

\* The label an id names, anchored in data coordinates: a graphic's label is
\* placed relative to its graphic (line 458).
LabelAt(fig, id) ==
    IF id.owner = "graphic"
    THEN LET g == fig.graphics[id.index]
         IN [g.label EXCEPT !.x = g.x + @, !.y = g.y + @]
    ELSE fig.labels[id.index]

\* MplLabel.offset
OffsetOf(off, id) == off[id.owner][id.index]

\* MplLabel.translate(dx): moves the label by dx along x
Translate(off, id, dx) == [off EXCEPT ![id.owner][id.index] = @ + dx]

\* MplLabel.resetPosition(): the label is back at its anchor
ResetPosition(off, id) == [off EXCEPT ![id.owner][id.index] = 0]

\* The rendered width of a label's text, in sixteenths of the axes width:
\* it grows with the text and does not depend on the limits.
TextExtent(label) == 2 * Len(label.text)

\* MplLabel.boundingBox(axes, figure): the box of the rendered text in data
\* coordinates.  The text is centred on its anchor, shifted by the offset,
\* and stands on its anchor's y; its size in data units follows the limits.
boundingBox(fig, off, id) ==
    LET label == LabelAt(fig, id)
        halfWidth == (TextExtent(label) * (fig.xlim[2] - fig.xlim[1])) \div 32
        height == (fig.ylim[2] - fig.ylim[1]) \div 10
        x == label.x + OffsetOf(off, id)
    IN [x0 |-> x - halfWidth, x1 |-> x + halfWidth,
        y0 |-> label.y, y1 |-> label.y + height]

\* MplLabel.isRenderedOn(figure): the label is rendered within the current
\* x-limits.
isRenderedOn(fig, off, id) ==
    LET box == boundingBox(fig, off, id)
    IN fig.xlim[1] <= box.x0 /\ box.x1 <= fig.xlim[2]

\* matplotlib's Bbox.overlaps: boxes that touch overlap.
Overlaps(boxA, boxB) ==
    /\ boxA.x0 <= boxB.x1 /\ boxB.x0 <= boxA.x1
    /\ boxA.y0 <= boxB.y1 /\ boxB.y0 <= boxA.y1

\* A resetLabelOffsets that resets nothing.
resetLabelOffsetsSkipped(fig, off) == off

\* Lines 464-474
resetLabelOffsets(fig, off) ==
    LET RECURSIVE OverGraphics(_, _)
        OverGraphics(o, i) ==
            IF i > Len(fig.graphics) THEN o
            ELSE OverGraphics(IF fig.graphics[i].hasLabel
                              THEN ResetPosition(o, LabelIdOf("graphic", i))
                              ELSE o, i + 1)
        RECURSIVE OverLabels(_, _)
        OverLabels(o, j) ==
            IF j > Len(fig.labels) THEN o
            ELSE OverLabels(ResetPosition(o, LabelIdOf("figure", j)), j + 1)
    IN OverLabels(OverGraphics(off, 1), 1)

\* Lines 476-488: the graphics' labels first, then the figure's labels.
getRenderedLabels(fig, off) ==
    LET ofGraphic(i) == LabelIdOf("graphic", i)
        ofFigure(j) == LabelIdOf("figure", j)
        graphicIds == [i \in 1..Len(fig.graphics) |-> ofGraphic(i)]
        figureIds == [j \in 1..Len(fig.labels) |-> ofFigure(j)]
        RenderedGraphic(id) == /\ fig.graphics[id.index].hasLabel
                               /\ isRenderedOn(fig, off, id)
        RenderedLabel(id) == isRenderedOn(fig, off, id)
    IN SelectSeq(graphicIds, RenderedGraphic)
       \o SelectSeq(figureIds, RenderedLabel)

\* Lines 517-525
translateLabel(fig, off, id, bbox, dx) ==
    LET moved == Translate(off, id, dx)
        xMin == fig.xlim[1]
        xMax == fig.xlim[2]
    IN IF bbox.x0 + dx < xMin
       THEN Translate(moved, id, xMin - (bbox.x0 + dx))
       ELSE IF bbox.x1 + dx > xMax
            THEN Translate(moved, id, xMax - (bbox.x1 + dx))
            ELSE moved

\* requiredSpacing / 2 (exact, see above)
Half(n) == n \div 2

\* A loop body after which a pass never counts as free of overlaps.
PairStepNeverClear(fig, rendered, boxes, a, b, acc) ==
    [acc EXCEPT !.noOverlap = FALSE]

\* Lines 501-511: the body of the loop for the pair (a, b), with the boxes
\* computed at the start of the pass.  acc is [offsets, noOverlap, translated].
PairStep(fig, rendered, boxes, a, b, acc) ==
    LET boxA == boxes[a]
        boxB == boxes[b]
        requiredSpacing == IF boxB.x1 > boxA.x1
                           THEN boxA.x1 - boxB.x0
                           ELSE boxA.x0 - boxB.x1
        offA == translateLabel(fig, acc.offsets, rendered[a], boxA,
                               Half(-requiredSpacing))
        offB == translateLabel(fig, offA, rendered[b], boxB,
                               Half(requiredSpacing))
    IN IF Overlaps(boxA, boxB)
       THEN [offsets |-> offB, noOverlap |-> FALSE,
             translated |-> acc.translated \cup {rendered[a], rendered[b]}]
       ELSE acc

\* Lines 500-511: the pairs (a, b) of itertools.combinations from (a, b) on.
\* (Each intermediate result is bound through a singleton set, which makes
\* TLC evaluate it once.)
RECURSIVE PairsFrom(_, _, _, _, _, _)
PairsFrom(fig, rendered, boxes, a, b, acc) ==
    IF a >= Len(rendered) THEN acc
    ELSE IF b > Len(rendered)
         THEN PairsFrom(fig, rendered, boxes, a + 1, a + 2, acc)
         ELSE CHOOSE result \in
                  {PairsFrom(fig, rendered, boxes, a, b + 1, next) :
                      next \in {PairStep(fig, rendered, boxes, a, b, acc)}} :
                  TRUE

\* Lines 496-515: the passes from pass number i (counted from 0) on.
RECURSIVE PassesFrom(_, _, _, _, _)
PassesFrom(fig, rendered, off, i, translated) ==
    IF ~(i < maxIteration)
    THEN [offsets |-> off, passes |-> i, translated |-> translated,
          rendered |-> rendered]
    ELSE LET boxes == [k \in 1..Len(rendered) |->
                          boundingBox(fig, off, rendered[k])]
             start == [offsets |-> off, noOverlap |-> TRUE,
                       translated |-> translated]
             After(pass) ==
                 IF pass.noOverlap
                 THEN [offsets |-> pass.offsets, passes |-> i + 1,
                       translated |-> pass.translated, rendered |-> rendered]
                 ELSE PassesFrom(fig, rendered, pass.offsets, i + 1,
                                 pass.translated)
         IN CHOOSE result \in
                {After(pass) :
                    pass \in {PairsFrom(fig, rendered, b, 1, 2, st) :
                                 b \in {boxes}, st \in {start}}} :
                TRUE

\* Lines 490-515
fixLabelOverlaps(fig, off) ==
    LET Resolve(rendered, start) ==
            IF Len(rendered) < 2
            THEN [offsets |-> start, passes |-> 0, translated |-> {},
                  rendered |-> rendered]
            ELSE PassesFrom(fig, rendered, start, 0, {})
    IN CHOOSE result \in
           {Resolve(rendered, start) :
               rendered \in {getRenderedLabels(fig, off)}, start \in {off}} :
           TRUE

\* Lines 460-462
updateLabels(fig, off) == fixLabelOverlaps(fig, resetLabelOffsets(fig, off))

\* Lines 537-552.  The x scaling of an auto-scaled graphic,
\* xScale * (halfHeight * 2 / yScale / 0.2) ** (3/4), is held as the three
\* numbers it is computed from.
scalingOfGraphic(fig, graphic) ==
    IF ~graphic.useAutoScale THEN <<[value |-> 1], 1>>
    ELSE <<[xScale |-> fig.xlim[2] - fig.xlim[1],
            height |-> Twice(graphic.halfHeight),
            yScale |-> fig.ylim[2] - fig.ylim[1]], 1>>

\* Lines 447-458: the transform of each graphic's patches (scaling, then
\* translation) and of its label (translation).
updateGraphics(fig) ==
    [i \in 1..Len(fig.graphics) |->
        [scaling |-> scalingOfGraphic(fig, fig.graphics[i]),
         translation |-> <<fig.graphics[i].x, fig.graphics[i].y>>,
         label |-> IF fig.graphics[i].hasLabel
                   THEN Some(<<fig.graphics[i].x, fig.graphics[i].y>>)
                   ELSE None]]

\* Some label is away from its anchor.
Displaced(off) ==
    \/ \E i \in DOMAIN off.graphic : off.graphic[i] # 0
    \/ \E j \in DOMAIN off.figure : off.figure[j] # 0

\* point.text is not None : a Point without text has no text field
HasText(point) == "text" \in DOMAIN point

\* Line 423 over all graphics: self.points.extend(graphic.points)
RECURSIVE PointsOfGraphics(_)
PointsOfGraphics(gs) ==
    IF gs = <<>> THEN <<>> ELSE Head(gs).points \o PointsOfGraphics(Tail(gs))

\* MplFigure.draw (lines 400-410): drawGraphics, drawPoints, drawLabels,
\* updateDisplayRange, updateGraphics, updateLabels.
Draw ==
    /\ stage = "created"
    /\ stage' = "drawn"
    /\ \E autoX \in AutoscaleXLims :
        LET newPoints == points \o PointsOfGraphics(graphics)
            newLabels == labels \o SelectSeq(newPoints, HasText)
            range == displayRange(path, lines)
            newY == <<-(15 * range), 15 * range>>
            fig == [graphics |-> graphics, labels |-> newLabels,
                    xlim |-> autoX, ylim |-> newY]
            fresh == [graphic |-> [i \in 1..Len(graphics) |-> 0],
                      figure |-> [j \in 1..Len(newLabels) |-> 0]]
            res == updateLabels(fig, fresh)
        IN /\ points' = newPoints
           /\ labels' = newLabels
           /\ xlim' = autoX
           /\ ylim' = newY
           /\ rangeCall' = [op |-> "updateDisplayRange",
                            displayRange |-> range]
           /\ transforms' = updateGraphics(fig)
           /\ offsets' = res.offsets
           /\ labelCall' = [op |-> "draw", passes |-> res.passes,
                            translated |-> res.translated,
                            rendered |-> res.rendered, displaced |-> FALSE]
    /\ UNCHANGED <<styles, designParams, path, lastCall, nCalls>>
    /\ UNCHANGED <<rayVars, graphics, sceneCall>>

\* The limits a zoom of the user may set.
ZoomXLims == {<<0, 512>>, <<0, 1024>>, <<256, 768>>}
ZoomYLims == {<<-150, 150>>, <<-400, 400>>}

\* The user zooms: the limits of the axes change and 'ylim_changed' fires
\* (line 390); onZoomCallback runs before anything else does.
Zoom ==
    /\ stage = "drawn"
    /\ stage' = "zooming"
    /\ \E newX \in ZoomXLims, newY \in ZoomYLims :
        /\ xlim' = newX
        /\ ylim' = newY
    /\ labelCall' = [noLabelCall EXCEPT !.op = "zoom"]
    /\ UNCHANGED <<designVars, rayVars, sceneVars, rangeVars>>
    /\ UNCHANGED <<offsets, transforms>>

\* A callback that computes the display range anew, as draw does.
OnZoomCallbackRescaling ==
    /\ stage = "zooming"
    /\ stage' = "drawn"
    /\ \E autoX \in AutoscaleXLims :
        LET range == displayRange(path, lines)
            newY == <<-(15 * range), 15 * range>>
            fig == [graphics |-> graphics, labels |-> labels,
                    xlim |-> autoX, ylim |-> newY]
            res == updateLabels(fig, offsets)
        IN /\ xlim' = autoX
           /\ ylim' = newY
           /\ transforms' = updateGraphics(fig)
           /\ offsets' = res.offsets
           /\ labelCall' = [op |-> "onZoomCallback", passes |-> res.passes,
                            translated |-> res.translated,
                            rendered |-> res.rendered,
                            displaced |-> Displaced(offsets)]
    /\ UNCHANGED <<designVars, rayVars, sceneVars, rangeVars>>

\* onZoomCallback (lines 533-535): updateGraphics, updateLabels.
OnZoomCallback ==
    /\ stage = "zooming"
    /\ stage' = "drawn"
    /\ LET fig == [graphics |-> graphics, labels |-> labels,
                   xlim |-> xlim, ylim |-> ylim]
           res == updateLabels(fig, offsets)
       IN /\ transforms' = updateGraphics(fig)
          /\ offsets' = res.offsets
          /\ labelCall' = [op |-> "onZoomCallback", passes |-> res.passes,
                           translated |-> res.translated,
                           rendered |-> res.rendered,
                           displaced |-> Displaced(offsets)]
    /\ UNCHANGED <<designVars, rayVars, sceneVars, rangeVars, axesVars>>

\* The scenes of the model: up to MaxLabels labels of the figure, in the
\* order of SceneLabelList, on three rows of which the middle one meets both
\* others at the drawn limits; at most one graphic, with or without a label
\* of its own; at most one point.
MaxLabels == 3
LabelRow == -20
MiddleRow == 0
UpperRow == 20
GraphicLabelRow == 44
FarAnchor == 448

SceneLabelList ==
    << Label("AS", 96, MiddleRow, 18, TRUE, "center"),
       Label("FS", 160, LabelRow, 18, TRUE, "center"),
       Label("F1", 160, UpperRow, 18, TRUE, "center"),
       Label("F2", 192, MiddleRow, 18, TRUE, "center") >>

RECURSIVE Chosen(_, _, _)
Chosen(list, picked, i) ==
    IF i > Len(list) THEN <<>>
    ELSE (IF i \in picked THEN <<list[i]>> ELSE <<>>)
         \o Chosen(list, picked, i + 1)

SceneLabels ==
    {Chosen(SceneLabelList, picked, 1) :
        picked \in {S \in SUBSET (1..Len(SceneLabelList)) :
                       Cardinality(S) <= MaxLabels}}

SceneGraphics ==
    {<<>>}
    \cup {<<[kind |-> "element", x |-> x, y |-> 0, halfHeight |-> MaxHalfHeight,
             useAutoScale |-> auto, hasLabel |-> TRUE,
             label |-> Label("L1", 0, GraphicLabelRow, 12, TRUE, "center"),
             points |-> <<>>]>> :
            x \in {160}, auto \in {TRUE}}
    \cup {<<[kind |-> "object", x |-> 0, y |-> 0, halfHeight |-> MaxHalfHeight,
             useAutoScale |-> FALSE, hasLabel |-> FALSE, label |-> None,
             points |-> <<[x |-> 0, y |-> 0]>>]>>}

ScenePoints ==
    {<<>>, <<[text |-> "f", x |-> FarAnchor, y |-> LabelRow]>>}

LabelsInit ==
    /\ RaysIdle
    /\ AxesIdle
    /\ styles = initialStyles
    /\ designParams = initialDesignParams
    /\ path = basePath
    /\ labels \in SceneLabels
    /\ graphics \in SceneGraphics
    /\ points \in ScenePoints
    /\ sceneCall = noSceneCall
    /\ lastCall = [op |-> "init", style |-> None, new |-> noOverrides,
                   outcome |-> "ok", beforeRef |-> initialDesignParams,
                   before |-> defaultStyle,
                   beforeHeight |-> NominalObjectHeight, warnings |-> {}]
    /\ nCalls = 0

LabelsNext == Draw \/ Zoom \/ OnZoomCallback

SpecLabels == LabelsInit /\ [][LabelsNext]_vars

-----------------------------------------------------------------------------
(***************************************************************************)
(* Claims about the label overlap resolver                                 *)
(***************************************************************************)

\* The figure as it is displayed now.
shownFigure ==
    [graphics |-> graphics, labels |-> labels, xlim |-> xlim, ylim |-> ylim]

\* Every label at its anchor.
zeroOffsets ==
    [graphic |-> [i \in 1..Len(graphics) |-> 0],
     figure |-> [j \in 1..Len(labels) |-> 0]]

\* updateLabels has just run for the limits shown.
Resolved == labelCall.op \in {"draw", "onZoomCallback"}

\* The box of the label, at its offset, lies within the x-limits.
WithinXLimits(id) ==
    LET box == boundingBox(shownFigure, offsets, id)
    IN xlim[1] <= box.x0 /\ box.x1 <= xlim[2]

\* C5: after fixLabelOverlaps returns, the bounding box of every rendered
\* label, shifted by the label's accumulated offset, lies inside the current
\* x-axis limits [xMin, xMax].
C5_ResolvedLabelsStayInsideLimits ==
    Resolved =>
        \A k \in 1..Len(labelCall.rendered) :
            WithinXLimits(labelCall.rendered[k])

\* No two labels rendered at zero offset have overlapping bounding boxes.
NoOverlapAtZeroOffset ==
    LET rendered == getRenderedLabels(shownFigure, zeroOffsets)
        box(k) == boundingBox(shownFigure, zeroOffsets, rendered[k])
    IN \A a, b \in 1..Len(rendered) : a < b => ~Overlaps(box(a), box(b))

\* C9 (as stated): when no two rendered labels overlap at zero offset,
\* updateLabels performs a single pass, translates no label and leaves
\* every label offset at 0.
C9_NonOverlappingLabelsTakeOnePass ==
    (Resolved /\ NoOverlapAtZeroOffset) =>
        /\ labelCall.passes = 1
        /\ labelCall.translated = {}
        /\ offsets = zeroOffsets

\* C9 (amended): when no two rendered labels overlap at zero offset,
\* updateLabels performs at most one pass (exactly one when two or more
\* labels are rendered, none when fewer are), translates no label and
\* leaves every label offset at 0.
C9_NonOverlappingLabelsAreLeftAlone ==
    (Resolved /\ NoOverlapAtZeroOffset) =>
        /\ labelCall.passes = (IF Len(labelCall.rendered) >= 2 THEN 1 ELSE 0)
        /\ labelCall.translated = {}
        /\ offsets = zeroOffsets

\* C9 witness: a zoom that found labels away from their anchors showed two
\* or more labels of which none overlaps another; one pass, all offsets 0.
C9_Witness ==
    /\ labelCall.op = "onZoomCallback"
    /\ labelCall.displaced
    /\ NoOverlapAtZeroOffset
    /\ Len(labelCall.rendered) >= 2
    /\ labelCall.passes = 1
    /\ offsets = zeroOffsets

\* C10: after any sequence of onZoomCallback invocations, the offset of
\* every label (of the figure and of the graphics) is the offset that one
\* resolution started from all-zero offsets produces for the limits shown,
\* whatever the offsets were before.
C10_OffsetsDoNotAccumulate ==
    labelCall.op = "onZoomCallback" =>
        offsets = fixLabelOverlaps(shownFigure, zeroOffsets).offsets

\* C10 witness: a zoom that found labels away from their anchors has moved
\* labels apart again.
C10_Witness ==
    /\ labelCall.op = "onZoomCallback"
    /\ labelCall.displaced
    /\ labelCall.translated # {}
    /\ Displaced(offsets)

\* C11: a viewport-change event never rebuilds the scene.  onZoomCallback
\* leaves the graphics, lines, points and labels (membership, order, anchor
\* positions, sizes and texts), the design parameters and the axis limits
\* unchanged; it changes only the transforms of the graphics and the
\* horizontal offsets of the labels.
C11_ZoomCallbackKeepsTheScene ==
    [][OnZoomCallback =>
          /\ UNCHANGED <<graphics, lines, points, labels>>
          /\ UNCHANGED <<styles, designParams>>
          /\ UNCHANGED <<xlim, ylim>>]_vars

\* C11 witness: the callback has run on a scene with a graphic and labels,
\* for limits other than the drawn ones, and has moved labels.
C11_Witness ==
    /\ labelCall.op = "onZoomCallback"
    /\ graphics # <<>>
    /\ labels # <<>>
    /\ Len(transforms) = Len(graphics)
    /\ ylim # <<-(15 * rangeCall.displayRange), 15 * rangeCall.displayRange>>
    /\ labelCall.translated # {}

-----------------------------------------------------------------------------
(***************************************************************************)
(* Figure.display                                                          *)
(*                                                                         *)
(* mplFigure (lines 342-350) hands the lists of the Figure themselves to   *)
(* the MplFigure: graphics, lines, labels and points are shared, so what   *)
(* drawGraphics and drawPoints add to them is added to the Figure's lists. *)
(***************************************************************************)

\* A Graphic as the MplFigure reads it: at height y, with a half height, a
\* flag for automatic scaling, an optional label and points of its own.
\* Element graphics scale with the display, arrows and pupils do not.
Drawable(g) ==
    LET extent == IF "halfHeight" \in DOMAIN g THEN g.halfHeight
                  ELSE IF "dy" \in DOMAIN g THEN Abs(g.dy)
                  ELSE g.diameter \div 2
        read == [y |-> 0, halfHeight |-> extent,
                 useAutoScale |-> (g.kind = "element"),
                 hasLabel |-> FALSE, label |-> None, points |-> <<>>]
    IN [f \in DOMAIN g \cup DOMAIN read |->
           IF f \in DOMAIN read THEN read[f] ELSE g[f]]

\* display (lines 352-364) with the matplotlib backend and display3D=False:
\* initializeDisplay, setGraphicsFromPath, mplFigure, create, display2D
\* (draw).  When rayTraceLines raises, the call ends there, after
\* initializeDisplay.
Display ==
    /\ nCalls < MaxCalls
    /\ stage \in {"created", "drawn"}
    /\ nCalls' = nCalls + 1
    /\ LET dp == activeParams
           fov == IF dp.limitObjectToFieldOfView
                  THEN LimitToFieldOfView(path)
                  ELSE [objectHeight |-> path.objectHeight, flag |-> FALSE,
                        note1 |-> <<>>, warnings |-> {}]
           note1 == IF fov.flag THEN fov.note1
                    ELSE <<<<"Object height", fov.objectHeight>>>>
           pa == IF dp.onlyPrincipalAndAxialRays
                 THEN PrincipalAndAxial(path)
                 ELSE [flag |-> FALSE, note2 |-> "", warnings |-> {}]
           newPath == [path EXCEPT !.objectHeight = fov.objectHeight]
           newParams == [dp EXCEPT !.limitObjectToFieldOfView = fov.flag,
                                   !.onlyPrincipalAndAxialRays = pa.flag]
           noted == Append(labels, Label(<<note1, pa.note2>>, 5, 5, 12,
                                         FALSE, "left"))
           res == rayTraceLines(manyRayTraces, newPath, newParams)
           pois == IF newPath.showPointsOfInterest
                   THEN pointsOfInterest(newPath) ELSE <<>>
           stops == IF newPath.showPointsOfInterest
                    THEN stopsLabels(newPath) ELSE <<>>
           built == graphicsOfElements(newPath, res.lines)
                    \o (IF newPath.showObject THEN <<graphicOfObject(newPath)>>
                        ELSE <<>>)
                    \o (IF newPath.showImages THEN graphicsOfImages(newPath)
                        ELSE <<>>)
                    \o (IF newPath.showEntrancePupil
                           /\ newPath.entrancePupil # None
                        THEN <<graphicOfEntrancePupil(newPath)>> ELSE <<>>)
           newGraphics == [i \in 1..Len(built) |-> Drawable(built[i])]
           newPoints == (points \o pois) \o PointsOfGraphics(newGraphics)
           newLabels == (noted \o stops) \o SelectSeq(newPoints, HasText)
           range == displayRange(newPath, res.lines)
           newY == <<-(15 * range), 15 * range>>
           fresh == [graphic |-> [i \in 1..Len(newGraphics) |-> 0],
                     figure |-> [j \in 1..Len(newLabels) |-> 0]]
           first == sceneCall.op # "display"
       IN /\ path' = newPath
          /\ styles' = [styles EXCEPT ![designParams] = newParams]
          /\ lastCall' = [op |-> "initializeDisplay", style |-> None,
                          new |-> noOverrides, outcome |-> "ok",
                          beforeRef |-> designParams, before |-> dp,
                          beforeHeight |-> path.objectHeight,
                          warnings |-> fov.warnings \cup pa.warnings]
          /\ IF res.outcome # "ok"
             THEN /\ labels' = noted
                  /\ sceneCall' =
                        [op |-> "display", outcome |-> res.outcome,
                         pointsOfInterest |-> <<>>,
                         firstLabels |-> IF first THEN noted
                                         ELSE sceneCall.firstLabels,
                         firstPoints |-> IF first THEN points
                                         ELSE sceneCall.firstPoints]
                  /\ UNCHANGED <<lines, graphics, points>>
                  /\ UNCHANGED <<axesVars, rangeVars, figVars>>
             ELSE \E autoX \in AutoscaleXLims :
                  LET fig == [graphics |-> newGraphics, labels |-> newLabels,
                              xlim |-> autoX, ylim |-> newY]
                      resolved == updateLabels(fig, fresh)
                  IN /\ lines' = res.lines
                     /\ graphics' = newGraphics
                     /\ points' = newPoints
                     /\ labels' = newLabels
                     /\ sceneCall' =
                           [op |-> "display", outcome |-> "ok",
                            pointsOfInterest |-> pois,
                            firstLabels |-> IF first THEN newLabels
                                            ELSE sceneCall.firstLabels,
                            firstPoints |-> IF first THEN newPoints
                                            ELSE sceneCall.firstPoints]
                     /\ stage' = "drawn"
                     /\ xlim' = autoX
                     /\ ylim' = newY
                     /\ rangeCall' = [op |-> "updateDisplayRange",
                                      displayRange |-> range]
                     /\ transforms' = updateGraphics(fig)
                     /\ offsets' = resolved.offsets
                     /\ labelCall' = [op |-> "draw",
                                      passes |-> resolved.passes,
                                      translated |-> resolved.translated,
                                      rendered |-> resolved.rendered,
                                      displaced |-> FALSE]
    /\ UNCHANGED <<designParams, manyRayTraces, rayCall>>

\* The paths displayed: with or without a finite field of view and image
\* size, aperture stop, principal ray, field stop and a point of interest.
FieldStops == {None, Some(7)}
DisplayedPointZ == 300
DisplayedPois == {<<>>, <<[z |-> DisplayedPointZ, label |-> "P1"]>>}

DisplayPaths ==
    {[q EXCEPT !.fieldStop = stop, !.pointsOfInterest = pp,
               !.showPointsOfInterest = show] :
        q \in Paths, stop \in FieldStops, pp \in DisplayedPois,
        show \in BOOLEAN}

DisplayInit ==
    /\ manyRayTraces = <<TraceOf(1, <<FALSE, FALSE>>)>>
    /\ lines = <<>>
    /\ rayCall = noRayCall
    /\ SceneIdle
    /\ AxesIdle
    /\ styles = initialStyles
    /\ designParams = initialDesignParams
    /\ path \in DisplayPaths
    /\ labels = <<>>
    /\ lastCall = [op |-> "init", style |-> None, new |-> noOverrides,
                   outcome |-> "ok", beforeRef |-> initialDesignParams,
                   before |-> defaultStyle,
                   beforeHeight |-> NominalObjectHeight, warnings |-> {}]
    /\ nCalls = 0

DisplayNext == Display \/ Zoom \/ OnZoomCallback

SpecDisplay == DisplayInit /\ [][DisplayNext]_vars

\* C12: calling display() any number of times on the same Figure yields
\* the same scene each time: the labels and points of the Figure after the
\* n-th call equal those after the first call, with no informational label,
\* stop label or point of interest duplicated or left over.
C12_DisplayIsRepeatable ==
    (sceneCall.op = "display" /\ sceneCall.outcome = "ok") =>
        /\ labels = sceneCall.firstLabels
        /\ points = sceneCall.firstPoints

=============================================================================
